---- MODULE Spec2Model ----
(***************************************************************************)
(* Limit order book and matching engine (lob::OrderBook,                   *)
(* lob::MatchingEngine) driven by the order loop of main().                *)
(*                                                                         *)
(* The two price maps are functions whose DOMAIN is the set of keys        *)
(* present in the std::map; a level is a record of its deque of orders and *)
(* its cached total_qty.  The nested while loops of OrderBook::match are   *)
(* recursive operators over the loop state.                                *)
(***************************************************************************)
EXTENDS Integers, Sequences, FiniteSets, TLC

\* ---- bounds of the model ----
MaxPrice == 2       \* submitted prices range over 1..MaxPrice
MaxQty == 2         \* submitted quantities range over 0..MaxQty
MaxOrders == 3      \* number of orders handed to the engine
MaxQueryOrders == 2 \* orders handed to the engine when best_bid/best_ask are polled
MaxRawOrders == 2   \* orders handed to the engine when lines are not validated
MaxRunOrders == 3   \* orders handed to the engine when the whole run is recorded
MaxNodes == 3       \* nodes that may be linked into the IntrusiveList
BlockSize == 2      \* slots per block of the ObjectPool (template parameter, default 4096)
MaxLive == 4        \* objects taken from the ObjectPool and not yet given back

Sides == {"Buy", "Sell"}
Prices == 1..MaxPrice
Qtys == 0..MaxQty
\* ts_ns is carried by an order and never read by the engine: two tags suffice
\* to tell an earlier tag from a later one
TsValues == {0, 1}

VARIABLES
    bids_,          \* OrderBook::bids_ : price -> PriceLevel, best = highest key
    asks_,          \* OrderBook::asks_ : price -> PriceLevel, best = lowest key
    trades,         \* the caller's trade sink (std::vector<Trade> of main)
    processed,      \* main(): number of orders handed to the engine
    order,          \* main(): the order last handed to process (caller's copy)
    keep_trades,    \* Args::keep_trades
    top,            \* a caller's record of its last best_bid()/best_ask() call
    twin,           \* a second MatchingEngine's book and its caller's sink
    head_,          \* IntrusiveList::head_ (0 is nullptr)
    tail_,          \* IntrusiveList::tail_
    size_,          \* IntrusiveList::size_
    links,          \* node -> its embedded T::next and T::prev
    fifo,           \* the nodes pushed and not yet popped or removed, oldest first
    call,           \* the last list call: its name, and the node given or returned
    blocks_,        \* ObjectPool::blocks_ (number of blocks owned)
    free_list_,     \* ObjectPool::free_list_ (0 is nullptr)
    allocated_,     \* ObjectPool::allocated_
    capacity_,      \* ObjectPool::capacity_
    slot_next,      \* slot -> FreeNode::next overlaid on the slot
    live,           \* pointers returned by allocate and not yet deallocated
    original_qty,   \* id -> the qty the order carried when it was read from the input
    ptr             \* the last pointer returned by allocate

engineVars == <<bids_, asks_, trades, processed, order, keep_trades>>

queryVars == <<top>>

twinVars == <<twin>>

listVars == <<head_, tail_, size_, links, fifo, call>>

poolVars == <<blocks_, free_list_, allocated_, capacity_, slot_next, live, ptr>>

runVars == <<original_qty>>

vars == <<engineVars, queryVars, twinVars, listVars, poolVars, runVars>>

\* ---- types.hpp ----
DefaultOrder == [id |-> 0, side |-> "Buy", price |-> 0, qty |-> 0, ts_ns |-> 0]

\* variant: the two ids change places
MakeTradeSwapped(taker_id, maker_id, price, qty) ==
    [taker_id |-> maker_id, maker_id |-> taker_id, price |-> price, qty |-> qty]

MakeTrade(taker_id, maker_id, price, qty) ==
    [taker_id |-> taker_id, maker_id |-> maker_id, price |-> price, qty |-> qty]

\* ---- order_book.hpp ----
DefaultLevel == [orders |-> <<>>, total_qty |-> 0]

EmptyMap == [p \in {} |-> DefaultLevel]

\* std::map::begin() under std::greater<> : the highest key
BidsBegin(book) == CHOOSE p \in DOMAIN book : \A q \in DOMAIN book : p >= q

\* variant: asks_ declared with the comparator of bids_, so begin() is the
\* highest ask
AsksBeginGreater(book) == CHOOSE p \in DOMAIN book : \A q \in DOMAIN book : p >= q

\* std::map::begin() under std::less<> : the lowest key
AsksBegin(book) == CHOOSE p \in DOMAIN book : \A q \in DOMAIN book : p <= q

\* std::map::erase(it)
Erase(book, key) == [p \in DOMAIN book \ {key} |-> book[p]]

\* std::min
Min(a, b) == IF a < b THEN a ELSE b

\* variant: the order is pushed at the front of the level's deque
insertFront(book, o) ==
    LET level == IF o.price \in DOMAIN book THEN book[o.price] ELSE DefaultLevel
        posted == [orders |-> <<o>> \o level.orders,
                   total_qty |-> level.total_qty + o.qty]
    IN  [p \in DOMAIN book \cup {o.price} |->
            IF p = o.price THEN posted ELSE book[p]]

\* variant: the level is kept in ts_ns order
insertByTs(book, o) ==
    LET level == IF o.price \in DOMAIN book THEN book[o.price] ELSE DefaultLevel
        posted == [orders |-> SelectSeq(level.orders, LAMBDA x : x.ts_ns <= o.ts_ns)
                              \o <<o>>
                              \o SelectSeq(level.orders, LAMBDA x : x.ts_ns > o.ts_ns),
                   total_qty |-> level.total_qty + o.qty]
    IN  [p \in DOMAIN book \cup {o.price} |->
            IF p = o.price THEN posted ELSE book[p]]

\* ---- OrderBook::add ----
\* the insert lambda: operator[] creates the level when absent
insert(book, o) ==
    LET level == IF o.price \in DOMAIN book THEN book[o.price] ELSE DefaultLevel
        posted == [orders |-> Append(level.orders, o),
                   total_qty |-> level.total_qty + o.qty]
    IN  [p \in DOMAIN book \cup {o.price} |->
            IF p = o.price THEN posted ELSE book[p]]

add(b, o) ==
    IF o.side = "Buy"
    THEN [bids |-> insert(b.bids, o), asks |-> b.asks]
    ELSE [bids |-> b.bids, asks |-> insert(b.asks, o)]

\* variant: the trade reports the maker's whole qty instead of exec_qty
BuyFillStepMakerQty(w, id, key) ==
    LET maker == Head(w.level.orders)
        exec_qty == Min(w.qty, maker.qty)
        filled == [maker EXCEPT !.qty = @ - exec_qty]
    IN  [level |-> [orders |-> IF filled.qty = 0
                                THEN Tail(w.level.orders)
                                ELSE <<filled>> \o Tail(w.level.orders),
                    total_qty |-> w.level.total_qty - exec_qty],
         qty |-> w.qty - exec_qty,
         trades |-> Append(w.trades, MakeTrade(id, maker.id, key, maker.qty))]

\* variant: the Sell arm fills one unit per iteration
SellFillStepUnit(w, id, key) ==
    LET maker == Head(w.level.orders)
        exec_qty == Min(1, Min(w.qty, maker.qty))
        filled == [maker EXCEPT !.qty = @ - exec_qty]
    IN  [level |-> [orders |-> IF filled.qty = 0
                                THEN Tail(w.level.orders)
                                ELSE <<filled>> \o Tail(w.level.orders),
                    total_qty |-> w.level.total_qty - exec_qty],
         qty |-> w.qty - exec_qty,
         trades |-> Append(w.trades, MakeTrade(id, maker.id, key, exec_qty))]

\* variant: the trade is inserted at the front of the sink
BuyFillStepFront(w, id, key) ==
    LET maker == Head(w.level.orders)
        exec_qty == Min(w.qty, maker.qty)
        filled == [maker EXCEPT !.qty = @ - exec_qty]
    IN  [level |-> [orders |-> IF filled.qty = 0
                                THEN Tail(w.level.orders)
                                ELSE <<filled>> \o Tail(w.level.orders),
                    total_qty |-> w.level.total_qty - exec_qty],
         qty |-> w.qty - exec_qty,
         trades |-> <<MakeTrade(id, maker.id, key, exec_qty)>> \o w.trades]

\* variant: the level's total_qty is not decremented by the fill
SellFillStepNoTotal(w, id, key) ==
    LET maker == Head(w.level.orders)
        exec_qty == Min(w.qty, maker.qty)
        filled == [maker EXCEPT !.qty = @ - exec_qty]
    IN  [level |-> [orders |-> IF filled.qty = 0
                                THEN Tail(w.level.orders)
                                ELSE <<filled>> \o Tail(w.level.orders),
                    total_qty |-> w.level.total_qty],
         qty |-> w.qty - exec_qty,
         trades |-> Append(w.trades, MakeTrade(id, maker.id, key, exec_qty))]

\* ---- OrderBook::match ----
\* One iteration of the inner loop of the Buy arm.  w = [level, qty, trades]
\* where qty is incoming.qty; id is incoming.id; key is it->first.
BuyFillStep(w, id, key) ==
    LET maker == Head(w.level.orders)
        exec_qty == Min(w.qty, maker.qty)
        filled == [maker EXCEPT !.qty = @ - exec_qty]
    IN  [level |-> [orders |-> IF filled.qty = 0
                                THEN Tail(w.level.orders)
                                ELSE <<filled>> \o Tail(w.level.orders),
                    total_qty |-> w.level.total_qty - exec_qty],
         qty |-> w.qty - exec_qty,
         trades |-> Append(w.trades, MakeTrade(id, maker.id, key, exec_qty))]

\* One iteration of the inner loop of the Sell arm.
SellFillStep(w, id, key) ==
    LET maker == Head(w.level.orders)
        exec_qty == Min(w.qty, maker.qty)
        filled == [maker EXCEPT !.qty = @ - exec_qty]
    IN  [level |-> [orders |-> IF filled.qty = 0
                                THEN Tail(w.level.orders)
                                ELSE <<filled>> \o Tail(w.level.orders),
                    total_qty |-> w.level.total_qty - exec_qty],
         qty |-> w.qty - exec_qty,
         trades |-> Append(w.trades, MakeTrade(id, maker.id, key, exec_qty))]

\* inner while loop of the Buy arm
RECURSIVE BuyWalkLevel(_, _, _)
BuyWalkLevel(w, id, key) ==
    IF w.qty > 0 /\ w.level.orders # <<>>
    THEN BuyWalkLevel(BuyFillStep(w, id, key), id, key)
    ELSE w

\* inner while loop of the Sell arm
RECURSIVE SellWalkLevel(_, _, _)
SellWalkLevel(w, id, key) ==
    IF w.qty > 0 /\ w.level.orders # <<>>
    THEN SellWalkLevel(SellFillStep(w, id, key), id, key)
    ELSE w

\* variant: the level is erased after the walk whether or not orders are left
StoreLevelErase(book, key, level) == Erase(book, key)

\* `if (level.orders.empty()) erase(it)`; otherwise the level was updated in
\* place through the reference
StoreLevel(book, key, level) ==
    IF level.orders = <<>>
    THEN Erase(book, key)
    ELSE [book EXCEPT ![key] = level]

\* variant: the Buy arm also stops at an ask equal to the limit price
BuyStopsAtEqual(price, key) == price <= key

\* `if (incoming.price < it->first) break;`
BuyStops(price, key) == price < key

\* variant: the Sell arm never stops at a bid below the limit price
SellStopsNever(price, key) == FALSE

\* `if (incoming.price > it->first) break;`
SellStops(price, key) == price > key

\* variant: the Buy arm records the taker's limit price in its trades
RECURSIVE MatchBuyTakerPrice(_, _)
MatchBuyTakerPrice(s, incoming) ==
    IF s.qty > 0 /\ DOMAIN s.book # {}
    THEN LET it == AsksBegin(s.book) IN
         IF BuyStops(incoming.price, it)
         THEN s
         ELSE LET w == BuyWalkLevel([level |-> s.book[it], qty |-> s.qty,
                                     trades |-> s.trades], incoming.id,
                                    incoming.price)
              IN  MatchBuyTakerPrice([book |-> StoreLevel(s.book, it, w.level),
                                      qty |-> w.qty, trades |-> w.trades],
                                     incoming)
    ELSE s

\* outer while loop of the Buy arm; s = [book, qty, trades], book is asks_
RECURSIVE MatchBuy(_, _)
MatchBuy(s, incoming) ==
    IF s.qty > 0 /\ DOMAIN s.book # {}
    THEN LET it == AsksBegin(s.book) IN
         IF BuyStops(incoming.price, it)
         THEN s
         ELSE LET w == BuyWalkLevel([level |-> s.book[it], qty |-> s.qty,
                                     trades |-> s.trades], incoming.id, it)
              IN  MatchBuy([book |-> StoreLevel(s.book, it, w.level),
                            qty |-> w.qty, trades |-> w.trades], incoming)
    ELSE s

\* variant: the Sell arm erases an emptied level only while the taker still
\* has quantity to match
RECURSIVE MatchSellLazyErase(_, _)
MatchSellLazyErase(s, incoming) ==
    IF s.qty > 0 /\ DOMAIN s.book # {}
    THEN LET it == BidsBegin(s.book) IN
         IF SellStops(incoming.price, it)
         THEN s
         ELSE LET w == SellWalkLevel([level |-> s.book[it], qty |-> s.qty,
                                      trades |-> s.trades], incoming.id, it)
              IN  MatchSellLazyErase(
                      [book |-> IF w.qty > 0
                                THEN StoreLevel(s.book, it, w.level)
                                ELSE [s.book EXCEPT ![it] = w.level],
                       qty |-> w.qty, trades |-> w.trades], incoming)
    ELSE s

\* outer while loop of the Sell arm; s = [book, qty, trades], book is bids_
RECURSIVE MatchSell(_, _)
MatchSell(s, incoming) ==
    IF s.qty > 0 /\ DOMAIN s.book # {}
    THEN LET it == BidsBegin(s.book) IN
         IF SellStops(incoming.price, it)
         THEN s
         ELSE LET w == SellWalkLevel([level |-> s.book[it], qty |-> s.qty,
                                      trades |-> s.trades], incoming.id, it)
              IN  MatchSell([book |-> StoreLevel(s.book, it, w.level),
                             qty |-> w.qty, trades |-> w.trades], incoming)
    ELSE s

\* result: the book, incoming.qty after matching, and the sink
match(b, incoming, sink) ==
    IF incoming.qty <= 0
    THEN [bids |-> b.bids, asks |-> b.asks, qty |-> incoming.qty, trades |-> sink]
    ELSE IF incoming.side = "Buy"
         THEN LET s == MatchBuy([book |-> b.asks, qty |-> incoming.qty,
                                 trades |-> sink], incoming)
              IN  [bids |-> b.bids, asks |-> s.book, qty |-> s.qty,
                   trades |-> s.trades]
         ELSE LET s == MatchSell([book |-> b.bids, qty |-> incoming.qty,
                                  trades |-> sink], incoming)
              IN  [bids |-> s.book, asks |-> b.asks, qty |-> s.qty,
                   trades |-> s.trades]

\* variant: best_bid reads the far end of bids_
best_bidLowest(book) == IF DOMAIN book = {} THEN 0 ELSE AsksBegin(book)

best_bid(book) == IF DOMAIN book = {} THEN 0 ELSE BidsBegin(book)

best_ask(book) == IF DOMAIN book = {} THEN 0 ELSE AsksBegin(book)

\* variant: the residual test is `order.qty >= 0`
ShouldPostNonNegative(qty) == qty >= 0

\* variant: the order is posted whatever is left of it
ShouldPostAlways(qty) == TRUE

\* ---- MatchingEngine::process ----
\* the residual is posted when order.qty > 0 after match
ShouldPost(qty) == qty > 0

\* variant: the order is posted with the qty it came in with
processPostsOriginal(b, o, sink) ==
    LET m == match(b, o, sink)
        after == IF ShouldPost(m.qty)
                 THEN add([bids |-> m.bids, asks |-> m.asks], o)
                 ELSE [bids |-> m.bids, asks |-> m.asks]
    IN  [bids |-> after.bids, asks |-> after.asks, trades |-> m.trades]

process(b, o, sink) ==
    LET m == match(b, o, sink)
        rest == [o EXCEPT !.qty = m.qty]
        after == IF ShouldPost(m.qty)
                 THEN add([bids |-> m.bids, asks |-> m.asks], rest)
                 ELSE [bids |-> m.bids, asks |-> m.asks]
    IN  [bids |-> after.bids, asks |-> after.asks, trades |-> m.trades]

\* ---- the components the order loop does not use, at rest ----
Null == 0

\* no best_bid()/best_ask() call made yet
NoQuery == [fn |-> "none", value |-> 0]

QueryIdle == top = NoQuery

\* a second engine, just constructed, with an empty sink
TwinInit == twin = [bids |-> EmptyMap, asks |-> EmptyMap, trades |-> <<>>]

\* no list call made yet
NoCall == [fn |-> "none", node |-> Null]

\* IntrusiveList() = default, over no nodes
ListIdle ==
    /\ head_ = Null
    /\ tail_ = Null
    /\ size_ = 0
    /\ links = <<>>
    /\ fifo = <<>>
    /\ call = NoCall

\* no ObjectPool constructed
PoolIdle ==
    /\ blocks_ = 0
    /\ free_list_ = Null
    /\ allocated_ = 0
    /\ capacity_ = 0
    /\ slot_next = <<>>
    /\ live = {}
    /\ ptr = Null

\* no order read from the input yet
RunIdle == original_qty = <<>>

\* ---- main() ----
Init ==
    /\ bids_ = EmptyMap
    /\ asks_ = EmptyMap
    /\ trades = <<>>
    /\ processed = 0
    /\ order = DefaultOrder
    /\ keep_trades \in BOOLEAN
    /\ QueryIdle
    /\ TwinInit
    /\ ListIdle
    /\ PoolIdle
    /\ RunIdle

\* one order of the input loop: engine.process(order, trades); ++processed.
\* Without keep_trades the sink was emptied after the previous order.
Submit ==
    /\ processed < MaxOrders
    /\ keep_trades \/ trades = <<>>
    /\ \E side \in Sides, price \in Prices, qty \in Qtys, ts \in TsValues :
        LET o == [id |-> processed + 1, side |-> side, price |-> price,
                  qty |-> qty, ts_ns |-> ts]
            r == process([bids |-> bids_, asks |-> asks_], o, trades)
        IN  /\ bids_' = r.bids
            /\ asks_' = r.asks
            /\ trades' = r.trades
            /\ order' = o
    /\ processed' = processed + 1
    /\ UNCHANGED keep_trades
    /\ UNCHANGED <<queryVars, twinVars, listVars, poolVars, runVars>>

\* if (!args.keep_trades) trades.clear();  (a no-op on an empty sink)
ClearTrades ==
    /\ ~keep_trades
    /\ trades # <<>>
    /\ trades' = <<>>
    /\ UNCHANGED <<bids_, asks_, processed, order, keep_trades>>
    /\ UNCHANGED <<queryVars, twinVars, listVars, poolVars, runVars>>

Next == Submit \/ ClearTrades

Spec == Init /\ [][Next]_vars

\* ---- OrderBook::best_bid / OrderBook::best_ask called between orders ----
\* engine.book().best_bid(): a const call, the caller keeps the result
BestBid ==
    /\ top' = [fn |-> "best_bid", value |-> best_bid(bids_)]
    /\ UNCHANGED <<engineVars, twinVars, listVars, poolVars, runVars>>

\* engine.book().best_ask()
BestAsk ==
    /\ top' = [fn |-> "best_ask", value |-> best_ask(asks_)]
    /\ UNCHANGED <<engineVars, twinVars, listVars, poolVars, runVars>>

\* the order loop, cut after MaxQueryOrders orders, with top-of-book queries in
\* between
SubmitFew == processed < MaxQueryOrders /\ Submit

NextQuery == SubmitFew \/ ClearTrades \/ BestBid \/ BestAsk

SpecQuery == Init /\ [][NextQuery]_vars

\* ---- two engines fed the same orders ----
\* the same order is handed to both engines; the second engine's copy carries
\* the ts_ns tag 0 whatever tag the first engine's copy carries
SubmitBoth ==
    /\ processed < MaxOrders
    /\ keep_trades \/ trades = <<>>
    /\ \E side \in Sides, price \in Prices, qty \in Qtys, ts \in TsValues :
        LET o == [id |-> processed + 1, side |-> side, price |-> price,
                  qty |-> qty, ts_ns |-> ts]
            r == process([bids |-> bids_, asks |-> asks_], o, trades)
            r2 == process([bids |-> twin.bids, asks |-> twin.asks],
                          [o EXCEPT !.ts_ns = 0], twin.trades)
        IN  /\ bids_' = r.bids
            /\ asks_' = r.asks
            /\ trades' = r.trades
            /\ order' = o
            /\ twin' = r2
    /\ processed' = processed + 1
    /\ UNCHANGED keep_trades
    /\ UNCHANGED <<queryVars, listVars, poolVars, runVars>>

\* both callers empty their sinks
ClearBoth ==
    /\ ~keep_trades
    /\ trades # <<>>
    /\ trades' = <<>>
    /\ twin' = [twin EXCEPT !.trades = <<>>]
    /\ UNCHANGED <<bids_, asks_, processed, order, keep_trades>>
    /\ UNCHANGED <<queryVars, listVars, poolVars, runVars>>

InitTwin == Init /\ keep_trades = FALSE

NextTwin == SubmitBoth \/ ClearBoth

SpecTwin == InitTwin /\ [][NextTwin]_vars

\* ---- the order loop on unvalidated lines (--stdin) ----
\* parse_order_line takes any price and any qty the line carries
RawPrices == -1..MaxPrice

RawQtys == -1..MaxQty

SubmitRaw ==
    /\ processed < MaxRawOrders
    /\ keep_trades \/ trades = <<>>
    /\ \E side \in Sides, price \in RawPrices, qty \in RawQtys, ts \in TsValues :
        LET o == [id |-> processed + 1, side |-> side, price |-> price,
                  qty |-> qty, ts_ns |-> ts]
            r == process([bids |-> bids_, asks |-> asks_], o, trades)
        IN  /\ bids_' = r.bids
            /\ asks_' = r.asks
            /\ trades' = r.trades
            /\ order' = o
    /\ processed' = processed + 1
    /\ UNCHANGED keep_trades
    /\ UNCHANGED <<queryVars, twinVars, listVars, poolVars, runVars>>

NextRaw == SubmitRaw \/ ClearTrades

SpecRaw == Init /\ [][NextRaw]_vars

\* ---- IntrusiveList<T> (intrusive_list.hpp) ----
\* A list is [head_, tail_, size_, links]; links[n] holds the members next and
\* prev that node n carries itself; Null is nullptr.
Nodes == 1..MaxNodes

Detached == [next |-> Null, prev |-> Null]

\* void push_back(T* node)
push_back(L, node) ==
    LET l1 == [L.links EXCEPT ![node] = [next |-> Null, prev |-> L.tail_]]
    IN  [head_ |-> IF L.tail_ # Null THEN L.head_ ELSE node,
         tail_ |-> node,
         size_ |-> L.size_ + 1,
         links |-> IF L.tail_ # Null
                   THEN [l1 EXCEPT ![L.tail_].next = node]
                   ELSE l1]

\* T* pop_front(): the list after the call, and the node returned
pop_front(L) ==
    IF L.head_ = Null
    THEN [list |-> L, node |-> Null]
    ELSE LET node == L.head_
             head == L.links[node].next
             l1 == IF head # Null
                   THEN [L.links EXCEPT ![head].prev = Null]
                   ELSE L.links
         IN  [list |-> [head_ |-> head,
                        tail_ |-> IF head # Null THEN L.tail_ ELSE Null,
                        size_ |-> L.size_ - 1,
                        links |-> [l1 EXCEPT ![node] = Detached]],
              node |-> node]

\* variant: the tail_ is left alone when the last node is unlinked
removeKeepsTail(L, node) ==
    LET prev == L.links[node].prev
        next == L.links[node].next
        l1 == IF prev # Null THEN [L.links EXCEPT ![prev].next = next]
                             ELSE L.links
        l2 == IF next # Null THEN [l1 EXCEPT ![next].prev = prev] ELSE l1
    IN  [head_ |-> IF prev # Null THEN L.head_ ELSE next,
         tail_ |-> L.tail_,
         size_ |-> L.size_ - 1,
         links |-> [l2 EXCEPT ![node] = Detached]]

\* void remove(T* node): the statements in order, each reading the links left
\* by the one before
remove(L, node) ==
    LET l1 == IF L.links[node].prev # Null
              THEN [L.links EXCEPT ![L.links[node].prev].next = L.links[node].next]
              ELSE L.links
        head == IF L.links[node].prev # Null THEN L.head_ ELSE L.links[node].next
        l2 == IF l1[node].next # Null
              THEN [l1 EXCEPT ![l1[node].next].prev = l1[node].prev]
              ELSE l1
        tail == IF l1[node].next # Null THEN L.tail_ ELSE l1[node].prev
    IN  [head_ |-> head,
         tail_ |-> tail,
         size_ |-> L.size_ - 1,
         links |-> [l2 EXCEPT ![node] = Detached]]

\* T* front(), bool empty(), std::size_t size()
front(L) == L.head_

empty(L) == L.head_ = Null

size(L) == L.size_

\* the list object and the nodes' members, as one value
TheList == [head_ |-> head_, tail_ |-> tail_, size_ |-> size_, links |-> links]

InList == {fifo[i] : i \in DOMAIN fifo}

Without(seq, node) == SelectSeq(seq, LAMBDA n : n # node)

\* the engine at rest, no order read
EngineIdle ==
    /\ bids_ = EmptyMap
    /\ asks_ = EmptyMap
    /\ trades = <<>>
    /\ processed = 0
    /\ order = DefaultOrder
    /\ keep_trades = FALSE
    /\ RunIdle

\* an empty list and MaxNodes nodes never linked before: their next and prev
\* hold whatever the owner left there
InitList ==
    /\ EngineIdle
    /\ QueryIdle
    /\ TwinInit
    /\ PoolIdle
    /\ head_ = Null
    /\ tail_ = Null
    /\ size_ = 0
    /\ \E g \in Nodes \cup {Null} : links = [n \in Nodes |-> [next |-> g, prev |-> g]]
    /\ fifo = <<>>
    /\ call = NoCall

StoreList(L) ==
    /\ head_' = L.head_
    /\ tail_' = L.tail_
    /\ size_' = L.size_
    /\ links' = L.links

\* push_back of a node that is in no list
PushBack ==
    /\ \E node \in Nodes \ InList :
        /\ StoreList(push_back(TheList, node))
        /\ fifo' = Append(fifo, node)
        /\ call' = [fn |-> "push_back", node |-> node]
    /\ UNCHANGED <<engineVars, queryVars, twinVars, poolVars, runVars>>

PopFront ==
    /\ LET r == pop_front(TheList)
       IN  /\ StoreList(r.list)
           /\ call' = [fn |-> "pop_front", node |-> r.node]
    /\ fifo' = IF fifo = <<>> THEN fifo ELSE Tail(fifo)
    /\ UNCHANGED <<engineVars, queryVars, twinVars, poolVars, runVars>>

\* remove of a node that is in this list
Remove ==
    /\ \E node \in InList :
        /\ StoreList(remove(TheList, node))
        /\ fifo' = Without(fifo, node)
        /\ call' = [fn |-> "remove", node |-> node]
    /\ UNCHANGED <<engineVars, queryVars, twinVars, poolVars, runVars>>

NextList == PushBack \/ PopFront \/ Remove

SpecList == InitList /\ [][NextList]_vars

\* ---- ObjectPool<T, BlockSize> (memory_pool.hpp) ----
\* A slot is named by its address: block b (the b-th element of blocks_) owns
\* the addresses Base(b) .. Base(b) + BlockSize - 1, and Null is nullptr.  A
\* pool is [blocks_, free_list_, allocated_, capacity_, slot_next], blocks_
\* being blocks_.size() and slot_next[a] what FreeNode::next reads at a.
Base(b) == (b - 1) * BlockSize + 1

Owned(blocks) == 1..(blocks * BlockSize)

\* the bytes of a slot that holds a constructed T and no FreeNode
Object == -1

\* the loop of grow(): for (i = BlockSize; i > 0; --i) thread slot i - 1
RECURSIVE Thread(_, _, _, _)
Thread(free, nexts, base, i) ==
    IF i = 0
    THEN [free_list_ |-> free, slot_next |-> nexts]
    ELSE LET node == base + (i - 1)
         IN  Thread(node, [nexts EXCEPT ![node] = free], base, i - 1)

\* variant: the block is threaded and kept, capacity_ is not raised
growKeepsCapacity(P) ==
    LET base == Base(P.blocks_ + 1)
        fresh == [a \in Owned(P.blocks_ + 1) |->
                     IF a \in DOMAIN P.slot_next THEN P.slot_next[a] ELSE Null]
        t == Thread(P.free_list_, fresh, base, BlockSize)
    IN  [blocks_ |-> P.blocks_ + 1,
         free_list_ |-> t.free_list_,
         allocated_ |-> P.allocated_,
         capacity_ |-> P.capacity_,
         slot_next |-> t.slot_next]

\* void grow(): a fresh zeroed block, then the loop, then the bookkeeping
grow(P) ==
    LET base == Base(P.blocks_ + 1)
        fresh == [a \in Owned(P.blocks_ + 1) |->
                     IF a \in DOMAIN P.slot_next THEN P.slot_next[a] ELSE Null]
        t == Thread(P.free_list_, fresh, base, BlockSize)
    IN  [blocks_ |-> P.blocks_ + 1,
         free_list_ |-> t.free_list_,
         allocated_ |-> P.allocated_,
         capacity_ |-> P.capacity_ + BlockSize,
         slot_next |-> t.slot_next]

\* variant: the head of the free list is not advanced
allocateKeepsHead(P) ==
    LET P1 == IF P.free_list_ = Null THEN grow(P) ELSE P
        slot == P1.free_list_
    IN  [pool |-> [P1 EXCEPT !.allocated_ = @ + 1,
                             !.slot_next[slot] = Object],
         ptr |-> slot]

\* T* allocate(): the pool after the call, and the pointer returned
allocate(P) ==
    LET P1 == IF P.free_list_ = Null THEN grow(P) ELSE P
        slot == P1.free_list_
    IN  [pool |-> [P1 EXCEPT !.free_list_ = P1.slot_next[slot],
                             !.allocated_ = @ + 1,
                             !.slot_next[slot] = Object],
         ptr |-> slot]

\* void deallocate(T* ptr)
deallocate(P, p) ==
    [P EXCEPT !.slot_next[p] = P.free_list_,
              !.free_list_ = p,
              !.allocated_ = @ - 1]

\* std::size_t allocated(), std::size_t capacity()
allocated(P) == P.allocated_

capacity(P) == P.capacity_

\* the members before the constructor body runs
NoBlocks ==
    [blocks_ |-> 0, free_list_ |-> Null, allocated_ |-> 0, capacity_ |-> 0,
     slot_next |-> <<>>]

ThePool ==
    [blocks_ |-> blocks_, free_list_ |-> free_list_, allocated_ |-> allocated_,
     capacity_ |-> capacity_, slot_next |-> slot_next]

StorePool(P) ==
    /\ blocks_' = P.blocks_
    /\ free_list_' = P.free_list_
    /\ allocated_' = P.allocated_
    /\ capacity_' = P.capacity_
    /\ slot_next' = P.slot_next

\* ObjectPool() { grow(); }
InitPool ==
    /\ EngineIdle
    /\ QueryIdle
    /\ TwinInit
    /\ ListIdle
    /\ LET P == grow(NoBlocks)
       IN  /\ blocks_ = P.blocks_
           /\ free_list_ = P.free_list_
           /\ allocated_ = P.allocated_
           /\ capacity_ = P.capacity_
           /\ slot_next = P.slot_next
    /\ live = {}
    /\ ptr = Null

\* p = pool.allocate(); the caller keeps p
Allocate ==
    /\ allocated_ < MaxLive
    /\ LET r == allocate(ThePool)
       IN  /\ StorePool(r.pool)
           /\ ptr' = r.ptr
           /\ live' = live \cup {r.ptr}
    /\ UNCHANGED <<engineVars, queryVars, twinVars, listVars, runVars>>

\* pool.deallocate(p) of a pointer the caller holds
Deallocate ==
    /\ \E p \in live :
        /\ StorePool(deallocate(ThePool, p))
        /\ live' = live \ {p}
    /\ UNCHANGED ptr
    /\ UNCHANGED <<engineVars, queryVars, twinVars, listVars, runVars>>

NextPool == Allocate \/ Deallocate

SpecPool == InitPool /\ [][NextPool]_vars

\* ---- the order loop with every trade kept (--keep-trades) ----
\* quantities as the generator draws them: qty_dist(1, max_qty)
RunQtys == 1..MaxQty

\* one order of the loop; the quantity it carried is noted under its id
SubmitRun ==
    /\ processed < MaxRunOrders
    /\ \E side \in Sides, price \in Prices, qty \in RunQtys, ts \in TsValues :
        LET o == [id |-> processed + 1, side |-> side, price |-> price,
                  qty |-> qty, ts_ns |-> ts]
            r == process([bids |-> bids_, asks |-> asks_], o, trades)
        IN  /\ bids_' = r.bids
            /\ asks_' = r.asks
            /\ trades' = r.trades
            /\ order' = o
            /\ original_qty' = Append(original_qty, qty)
    /\ processed' = processed + 1
    /\ UNCHANGED keep_trades
    /\ UNCHANGED <<queryVars, twinVars, listVars, poolVars>>

InitRun == Init /\ keep_trades = TRUE

NextRun == SubmitRun

SpecRun == InitRun /\ [][NextRun]_vars

\* ---- observation helpers ----
RECURSIVE SumQty(_)
SumQty(seq) == IF seq = <<>> THEN 0 ELSE Head(seq).qty + SumQty(Tail(seq))

\* the orders resting on one side
OrdersOf(book) ==
    UNION {{book[p].orders[i] : i \in DOMAIN book[p].orders} : p \in DOMAIN book}

RestingIds(book) == {o.id : o \in OrdersOf(book)}

\* number of orders resting on one side
RECURSIVE CountOn(_, _)
CountOn(book, keys) ==
    IF keys = {} THEN 0
    ELSE LET p == CHOOSE k \in keys : TRUE
         IN  Len(book[p].orders) + CountOn(book, keys \ {p})

\* quantity resting on one side under identifier id
RECURSIVE QtyOn(_, _, _)
QtyOn(book, keys, id) ==
    IF keys = {} THEN 0
    ELSE LET p == CHOOSE k \in keys : TRUE
         IN  SumQty(SelectSeq(book[p].orders, LAMBDA o : o.id = id))
             + QtyOn(book, keys \ {p}, id)

RestingQty(bids, asks, id) ==
    QtyOn(bids, DOMAIN bids, id) + QtyOn(asks, DOMAIN asks, id)

TradesOfTaker(id) == SelectSeq(trades, LAMBDA t : t.taker_id = id)

\* a step of Submit, and the trades it appended to the sink
IsSubmit == processed' = processed + 1

NewTrades == SubSeq(trades', Len(trades) + 1, Len(trades'))

\* what is left of the submitted order once its fills are taken off
Remaining == order'.qty - SumQty(NewTrades)

\* the last submitted order traded and its trades are still in the sink
LastTraded ==
    /\ processed > 0
    /\ trades # <<>>
    /\ trades[Len(trades)].taker_id = order.id

\* ---- C1 ----
\* C1: after every process call, if both sides are non-empty then
\* best_bid() < best_ask(): the book is never crossed at rest.
NoCrossAtRest ==
    (DOMAIN bids_ # {} /\ DOMAIN asks_ # {}) => best_bid(bids_) < best_ask(asks_)

\* a Buy crossed the best ask, rested its remainder, and asks remain above it
NoCrossWitness ==
    /\ LastTraded
    /\ order.side = "Buy"
    /\ order.id \in RestingIds(bids_)
    /\ DOMAIN asks_ # {}
    /\ order.price > 0
    /\ best_bid(bids_) = order.price

\* ---- C2 ----
\* C2: for every submit of an order with qty > 0, the quantities of the trades
\* emitted during the submit plus the quantity of the order left resting right
\* after it equal the order's incoming qty.
MassConservation ==
    [][(IsSubmit /\ order'.qty > 0) =>
          SumQty(NewTrades) + RestingQty(bids_', asks_', order'.id) = order'.qty]_vars

\* the last order traded and rests with the remainder
MassConservationWitness ==
    /\ LastTraded
    /\ SumQty(TradesOfTaker(order.id)) > 0
    /\ RestingQty(bids_, asks_, order.id) > 0
    /\ RestingQty(bids_, asks_, order.id) < order.qty

\* ---- C6 ----
\* C6: at every level of both sides the cached total_qty equals the sum of
\* qty over the orders queued at the level.
LevelTotalsOn(book) ==
    \A p \in DOMAIN book : book[p].total_qty = SumQty(book[p].orders)

LevelTotals == LevelTotalsOn(bids_) /\ LevelTotalsOn(asks_)

\* a level holding two orders whose head was partially filled by the last order
LevelTotalsWitness ==
    /\ LastTraded
    /\ \E p \in DOMAIN asks_ :
          /\ Len(asks_[p].orders) >= 2
          /\ asks_[p].orders[1].id = trades[Len(trades)].maker_id
          /\ asks_[p].total_qty >= 3

\* ---- C7 ----
\* C7: no price level with an empty order queue exists in either map after
\* process returns; a level whose last order is filled is erased.
NoEmptyLevel ==
    /\ \A p \in DOMAIN bids_ : bids_[p].orders # <<>>
    /\ \A p \in DOMAIN asks_ : asks_[p].orders # <<>>

\* the last order filled the last maker of a level and the level is gone,
\* while another level remains on that side
NoEmptyLevelWitness ==
    /\ LastTraded
    /\ order.side = "Sell"
    /\ trades[Len(trades)].price \notin DOMAIN bids_
    /\ DOMAIN bids_ # {}

\* ---- C8 ----
\* C8: after process returns every resting order has qty > 0: a maker whose
\* qty reaches 0 leaves its level in the same step, and a taker is posted only
\* with a remaining qty > 0.
RestingQtyPositive ==
    \A o \in OrdersOf(bids_) \cup OrdersOf(asks_) : o.qty > 0

\* the last order was filled completely against a maker that it emptied, and
\* neither of them rests
RestingQtyPositiveWitness ==
    /\ LastTraded
    /\ SumQty(TradesOfTaker(order.id)) = order.qty
    /\ order.id \notin RestingIds(bids_) \cup RestingIds(asks_)
    /\ trades[Len(trades)].maker_id \notin RestingIds(bids_) \cup RestingIds(asks_)
    /\ OrdersOf(bids_) \cup OrdersOf(asks_) # {}

\* ---- per-submit observations (action level) ----
TakerIsBuy == order'.side = "Buy"

\* the side the submitted order matches against, before and after the step
OppBefore == IF TakerIsBuy THEN asks_ ELSE bids_

OppAfter == IF TakerIsBuy THEN asks_' ELSE bids_'

\* the submitted order's own side, before and after the step
OwnBefore == IF TakerIsBuy THEN bids_ ELSE asks_

OwnAfter == IF TakerIsBuy THEN bids_' ELSE asks_'

\* a strictly better price for a maker facing the submitted order
Better(pa, pb) == IF TakerIsBuy THEN pa < pb ELSE pa > pb

\* quantity filled against maker id by the first n trades of the step
FilledBefore(id, n) ==
    SumQty(SelectSeq(SubSeq(NewTrades, 1, n), LAMBDA t : t.maker_id = id))

\* maker B is filled in this step only after maker A is completely filled
FilledFirst(A, B) ==
    \A j \in 1..Len(NewTrades) :
        NewTrades[j].maker_id = B.id => FilledBefore(A.id, j - 1) = A.qty

\* ---- C3 ----
\* C3: price priority.  During one submit, a maker at a worse price receives
\* no fill unless every maker at a strictly better price has been completely
\* filled first; the trade prices of a Buy submit are non-decreasing and those
\* of a Sell submit non-increasing.
PricePriority ==
    [][IsSubmit =>
         /\ \A A, B \in OrdersOf(OppBefore) :
               Better(A.price, B.price) => FilledFirst(A, B)
         /\ \A i, j \in 1..Len(NewTrades) :
               i < j => \/ NewTrades[i].price = NewTrades[j].price
                        \/ Better(NewTrades[i].price, NewTrades[j].price)]_vars

\* the last order walked two levels, best first, and the maker at the worse
\* level keeps a remainder
PricePriorityWitness ==
    /\ LastTraded
    /\ \E i, j \in 1..Len(trades) :
          /\ i < j
          /\ trades[i].taker_id = order.id
          /\ trades[j].taker_id = order.id
          /\ trades[i].price # trades[j].price
          /\ trades[j].maker_id \in RestingIds(bids_) \cup RestingIds(asks_)

\* ---- C4 ----
\* C4: time priority.  Of two makers at one price on one side, the one posted
\* later receives no fill until the earlier one is completely filled, whatever
\* their ts_ns; matching only fills and removes the head of a level's queue, so
\* what is left of a level is a tail end of its queue with at most the head's
\* qty reduced.
HeadOnly(before, after) ==
    LET gone == Len(before) - Len(after)
    IN  /\ gone >= 0
        /\ \A i \in 1..Len(after) :
              \/ after[i] = before[gone + i]
              \/ /\ i = 1
                 /\ after[1].qty < before[gone + 1].qty
                 /\ after[1] = [before[gone + 1] EXCEPT !.qty = after[1].qty]

TimePriority ==
    [][IsSubmit =>
         \A p \in DOMAIN OppBefore :
            /\ \A A, B \in {OppBefore[p].orders[i] : i \in DOMAIN OppBefore[p].orders} :
                  A.id < B.id => FilledFirst(A, B)
            /\ HeadOnly(OppBefore[p].orders,
                        IF p \in DOMAIN OppAfter THEN OppAfter[p].orders ELSE <<>>)]_vars

\* the head of a level was partially filled by the last order while the order
\* queued behind it, posted later but tagged with an earlier ts_ns, is untouched
TimePriorityWitness ==
    /\ LastTraded
    /\ \E book \in {bids_, asks_} : \E p \in DOMAIN book :
          /\ Len(book[p].orders) >= 2
          /\ book[p].orders[1].id = trades[Len(trades)].maker_id
          /\ book[p].orders[1].id < book[p].orders[2].id
          /\ book[p].orders[1].ts_ns > book[p].orders[2].ts_ns

\* ---- C5 ----
\* C5: every emitted trade carries the incoming order's id as taker_id, the id
\* of the resting order it was filled against as maker_id, that maker's
\* resting price as price, and a price between the maker's and the taker's.
ExecutionPrice ==
    [][IsSubmit =>
         \A j \in 1..Len(NewTrades) :
            LET t == NewTrades[j] IN
            /\ t.taker_id = order'.id
            /\ \E p \in DOMAIN OppBefore : \E i \in DOMAIN OppBefore[p].orders :
                  LET maker == OppBefore[p].orders[i] IN
                  /\ maker.id = t.maker_id
                  /\ t.price = p
                  /\ t.price = maker.price
                  /\ maker.qty - QtyOn(OppAfter, DOMAIN OppAfter, maker.id)
                        = FilledBefore(maker.id, Len(NewTrades))
                  /\ IF TakerIsBuy
                     THEN maker.price <= t.price /\ t.price <= order'.price
                     ELSE order'.price <= t.price /\ t.price <= maker.price]_vars

\* the last order traded at a maker's price strictly better than its own limit
ExecutionPriceWitness ==
    /\ LastTraded
    /\ trades[Len(trades)].price # order.price
    /\ trades[Len(trades)].maker_id # order.id

\* ---- C9 ----
\* C9: a submitted order that still has qty > 0 after matching is posted on
\* its own side at its own price with exactly the remaining quantity, at the
\* tail of that level's queue, the level being created if it did not exist.
ResidualPosted ==
    [][(IsSubmit /\ order'.qty > 0 /\ Remaining > 0) =>
         LET p == order'.price
             old == IF p \in DOMAIN OwnBefore THEN OwnBefore[p].orders ELSE <<>>
         IN  /\ DOMAIN OwnAfter = DOMAIN OwnBefore \cup {p}
             /\ OwnAfter[p].orders = Append(old, [order' EXCEPT !.qty = Remaining])
             /\ \A q \in DOMAIN OwnBefore \ {p} : OwnAfter[q] = OwnBefore[q]
             /\ order'.id \notin RestingIds(OppAfter)]_vars

\* the last order rests at the tail of a level behind an earlier order
ResidualPostedWitness ==
    /\ processed > 0
    /\ order.qty > 0
    /\ \E book \in {bids_, asks_} : \E p \in DOMAIN book :
          /\ Len(book[p].orders) >= 2
          /\ book[p].orders[Len(book[p].orders)].id = order.id
          /\ p = order.price

\* ---- C10 ----
\* C10: a submitted order that is completely filled during matching never
\* becomes a maker: it rests on neither side after process returns and the
\* number of orders resting on its own side is unchanged.
FilledTakerVanishes ==
    [][(IsSubmit /\ order'.qty > 0 /\ Remaining = 0) =>
         /\ order'.id \notin RestingIds(bids_') \cup RestingIds(asks_')
         /\ CountOn(OwnAfter, DOMAIN OwnAfter) = CountOn(OwnBefore, DOMAIN OwnBefore)
         /\ OwnAfter = OwnBefore]_vars

\* the last order was filled completely while orders rest on its own side
FilledTakerVanishesWitness ==
    /\ LastTraded
    /\ SumQty(TradesOfTaker(order.id)) = order.qty
    /\ LET own == IF order.side = "Buy" THEN bids_ ELSE asks_
       IN  CountOn(own, DOMAIN own) > 0

\* ---- C11 ----
\* C11: a submit changes nothing it does not cross.  Every opposite-side level
\* at a price the submitted order does not cross is left unchanged and no
\* trade executes there; on its own side every level other than the one at
\* its price is left unchanged; a submit that crosses no level emits no trade
\* and leaves the whole opposite side unchanged.
Crosses(p) == IF TakerIsBuy THEN order'.price >= p ELSE order'.price <= p

FrameOfSubmit ==
    [][IsSubmit =>
         /\ DOMAIN OppAfter \subseteq DOMAIN OppBefore
         /\ \A p \in DOMAIN OppBefore :
               ~Crosses(p) =>
                  /\ p \in DOMAIN OppAfter
                  /\ OppAfter[p] = OppBefore[p]
                  /\ \A j \in 1..Len(NewTrades) : NewTrades[j].price # p
         /\ DOMAIN OwnAfter \ {order'.price} = DOMAIN OwnBefore \ {order'.price}
         /\ \A q \in DOMAIN OwnBefore \ {order'.price} : OwnAfter[q] = OwnBefore[q]
         /\ (\A p \in DOMAIN OppBefore : ~Crosses(p)) =>
               (NewTrades = <<>> /\ OppAfter = OppBefore)]_vars

\* the last order crossed the best opposite level with quantity to spare and
\* rests, while a level it does not cross stays on the opposite side
FrameOfSubmitWitness ==
    /\ LastTraded
    /\ order.qty > 0
    /\ RestingQty(bids_, asks_, order.id) > 0
    /\ LET opp == IF order.side = "Buy" THEN asks_ ELSE bids_
       IN  opp # EmptyMap

\* ---- C12 ----
\* C12: best_bid() returns the highest price at which a Buy order rests and
\* best_ask() the lowest price at which a Sell order rests; each returns 0
\* exactly when its side holds no order (all resting prices being > 0); and
\* neither call changes the book.
HighestPrice(orders) == CHOOSE p \in {o.price : o \in orders} :
                            \A o \in orders : p >= o.price

LowestPrice(orders) == CHOOSE p \in {o.price : o \in orders} :
                           \A o \in orders : p <= o.price

IsQuery == top' # top

BestOfBook ==
    [][IsQuery =>
         /\ bids_' = bids_ /\ asks_' = asks_ /\ trades' = trades
         /\ top'.fn \in {"best_bid", "best_ask"}
         /\ top'.fn = "best_bid" =>
               /\ top'.value = 0 <=> OrdersOf(bids_) = {}
               /\ OrdersOf(bids_) # {} => top'.value = HighestPrice(OrdersOf(bids_))
         /\ top'.fn = "best_ask" =>
               /\ top'.value = 0 <=> OrdersOf(asks_) = {}
               /\ OrdersOf(asks_) # {} => top'.value = LowestPrice(OrdersOf(asks_))]_vars

\* best_bid() was called on a book with two bid levels and returned the higher
BestOfBookWitness ==
    /\ top.fn = "best_bid"
    /\ Cardinality(DOMAIN bids_) >= 2
    /\ top.value = HighestPrice(OrdersOf(bids_))
    /\ \E o \in OrdersOf(bids_) : o.price < top.value

\* ---- C13 ----
\* C13: process only appends to the caller's sink.  The entries present before
\* the call stay unchanged and in place, and the trades of the submit follow
\* them in the order the fills executed: best level first and, within a level,
\* head of the queue first.
\* the place of maker id in the opposite side before the step: <<price, index>>
PlaceOf(id) ==
    CHOOSE pl \in {<<p, i>> : p \in DOMAIN OppBefore, i \in 1..MaxOrders} :
        /\ pl[2] \in DOMAIN OppBefore[pl[1]].orders
        /\ OppBefore[pl[1]].orders[pl[2]].id = id

ExecutedBefore(a, b) ==
    \/ Better(PlaceOf(a)[1], PlaceOf(b)[1])
    \/ PlaceOf(a)[1] = PlaceOf(b)[1] /\ PlaceOf(a)[2] < PlaceOf(b)[2]

SinkAppendOnly ==
    [][IsSubmit =>
         /\ Len(trades') >= Len(trades)
         /\ SubSeq(trades', 1, Len(trades)) = trades
         /\ \A j \in 1..Len(NewTrades) :
               NewTrades[j].maker_id \in RestingIds(OppBefore)
         /\ \A i, j \in 1..Len(NewTrades) :
               i < j => ExecutedBefore(NewTrades[i].maker_id,
                                       NewTrades[j].maker_id)]_vars

\* the sink holds a trade of an earlier order followed by one of the last order
SinkAppendOnlyWitness ==
    /\ LastTraded
    /\ keep_trades
    /\ Len(trades) >= 2
    /\ trades[1].taker_id # order.id

\* ---- C14 ----
\* C14: determinism.  Two engines started empty and fed the same orders (same
\* id, side, price and qty; the ts_ns tags may differ) produce the same trades
\* and hold identical books: same levels, same queue order, same quantities
\* and totals.
WithoutTs(book) ==
    [p \in DOMAIN book |->
        [orders |-> [i \in DOMAIN book[p].orders |->
                        [id |-> book[p].orders[i].id,
                         side |-> book[p].orders[i].side,
                         price |-> book[p].orders[i].price,
                         qty |-> book[p].orders[i].qty]],
         total_qty |-> book[p].total_qty]]

EnginesAgree ==
    /\ trades = twin.trades
    /\ WithoutTs(bids_) = WithoutTs(twin.bids)
    /\ WithoutTs(asks_) = WithoutTs(twin.asks)

\* both engines traded, and a level of the first engine queues an order tagged
\* 1 ahead of an order tagged 0 while the second engine's tags are all 0
EnginesAgreeWitness ==
    /\ LastTraded
    /\ twin.trades # <<>>
    /\ \E book \in {bids_, asks_} : \E p \in DOMAIN book :
          /\ Len(book[p].orders) >= 2
          /\ book[p].orders[1].ts_ns > book[p].orders[2].ts_ns

\* ---- C15 ----
\* C15: the match loop terminates.  Every fill of a submit either brings the
\* submitted order's qty to 0 or removes its maker from the book, so a fill
\* that does not remove its maker is the last one and exhausts the order, no
\* maker is filled twice, and one submit performs at most (resting
\* opposite-side orders + 1) fills.
FillsBounded ==
    [][IsSubmit =>
         /\ Len(NewTrades) <= CountOn(OppBefore, DOMAIN OppBefore) + 1
         /\ \A j \in 1..Len(NewTrades) :
               /\ NewTrades[j].qty > 0
               /\ \/ NewTrades[j].maker_id \notin RestingIds(OppAfter)
                  \/ j = Len(NewTrades) /\ Remaining = 0
         /\ \A i, j \in 1..Len(NewTrades) :
               i < j => NewTrades[i].maker_id # NewTrades[j].maker_id]_vars

\* the last order emptied one maker and stopped inside the next, which remains
FillsBoundedWitness ==
    /\ LastTraded
    /\ Len(TradesOfTaker(order.id)) >= 2
    /\ SumQty(TradesOfTaker(order.id)) = order.qty
    /\ trades[Len(trades)].maker_id \in RestingIds(bids_) \cup RestingIds(asks_)

\* ---- C16 ----
\* C16: a submit with qty <= 0 emits no trade, posts nothing and leaves both
\* sides of the book unchanged.
NonPositiveQtyIgnored ==
    [][(IsSubmit /\ order'.qty <= 0) =>
         /\ trades' = trades
         /\ bids_' = bids_
         /\ asks_' = asks_]_vars

\* the last order had a negative qty and a price that crosses a resting order
NonPositiveQtyIgnoredWitness ==
    /\ processed > 1
    /\ order.qty < 0
    /\ \/ order.side = "Buy" /\ \E p \in DOMAIN asks_ : order.price >= p
       \/ order.side = "Sell" /\ \E p \in DOMAIN bids_ : order.price <= p

\* ---- C17 ----
\* C17: a submit with price <= 0 and qty > 0 is rejected: it emits no trade,
\* posts nothing and leaves both sides of the book unchanged.
NonPositivePriceRejected ==
    [][(IsSubmit /\ order'.price <= 0 /\ order'.qty > 0) =>
         /\ trades' = trades
         /\ bids_' = bids_
         /\ asks_' = asks_]_vars

\* ---- C18 ----
\* C18 as stated: the book offers cancel(id); cancelling a resting id removes
\* that order and returns success, so that it can never be matched afterwards.
\* Here: in every state, for every resting id, an operation is available that
\* is no submit, emits no trade and takes the order with that id out of the book.
CancelRemoves(id) ==
    /\ Next
    /\ processed' = processed
    /\ trades' = trades
    /\ id \notin RestingIds(bids_') \cup RestingIds(asks_')

RestingBefore == OrdersOf(bids_) \cup OrdersOf(asks_)

RECURSIVE Walk(_, _)
Walk(n, k) ==
    IF n = Null \/ k = 0 THEN <<>> ELSE <<n>> \o Walk(links[n].next, k - 1)

ListShape ==
    /\ Walk(front(TheList), MaxNodes + 1) = fifo
    /\ size(TheList) = Len(fifo)
    /\ empty(TheList) <=> size(TheList) = 0
    /\ (call.fn \in {"pop_front", "remove"} /\ call.node # Null)
          => links[call.node] = Detached

PopsOldest ==
    call'.fn = "pop_front"
       => call'.node = IF fifo = <<>> THEN Null ELSE Head(fifo)

\* C19: IntrusiveList keeps FIFO order.  After any sequence of push_back,
\* pop_front and remove of a node in the list, following next from front()
\* visits exactly the nodes pushed and not yet popped or removed, in the order
\* they were pushed; size() is their count; empty() holds iff size() = 0; a
\* node returned by pop_front or given to remove has both links null; and
\* pop_front returns the oldest remaining node, or null on an empty list.
ListKeepsFifo == []ListShape /\ [][PopsOldest]_vars

\* a node was removed from a list of three, and the two left are in an order
\* that only a second push of a node explains
ListKeepsFifoWitness ==
    /\ call.fn = "remove"
    /\ call.node \notin InList
    /\ size_ = 2
    /\ Len(fifo) = 2
    /\ fifo[1] > fifo[2]

\* ---- C20 ----
IsAllocate == allocated_' = allocated_ + 1

\* C20: ObjectPool never hands out a live slot.  Every pointer returned by
\* allocate() differs from every pointer live at the call; every live pointer
\* lies in a block the pool owns; and an allocate() that grows the pool by a
\* block leaves the pointers live before it live, inside the blocks they were
\* in, and different from the one it returns.
NeverHandsOutLive ==
    [][/\ live' \subseteq Owned(blocks_')
       /\ IsAllocate =>
            /\ ptr' \notin live
            /\ ptr' \in Owned(blocks_')
            /\ blocks_' > blocks_ =>
                  /\ live \subseteq live'
                  /\ live \subseteq Owned(blocks_)
                  /\ ptr' \notin Owned(blocks_)]_vars

\* the pool grew by a second block while holding live pointers, and the last
\* pointer returned is a slot of the first block that was given back before
NeverHandsOutLiveWitness ==
    /\ blocks_ = 2
    /\ ptr \in live
    /\ ptr \in Owned(1)
    /\ \E p \in live : p \notin Owned(1)
    /\ allocated_ = MaxLive

\* ---- C21 ----
PoolAccounts ==
    /\ allocated(ThePool) = Cardinality(live)
    /\ allocated(ThePool) <= capacity(ThePool)
    /\ capacity(ThePool) = BlockSize * blocks_

CapacitySteps ==
    /\ capacity(ThePool)' >= capacity(ThePool)
    /\ capacity(ThePool)' # capacity(ThePool) =>
          /\ IsAllocate
          /\ allocated(ThePool) = capacity(ThePool)
          /\ capacity(ThePool)' = capacity(ThePool) + BlockSize

\* C21: ObjectPool accounting.  In every state of a constructed pool
\* allocated() is the number of pointers returned by allocate() and not yet
\* deallocated, allocated() <= capacity(), and capacity() is BlockSize times
\* the number of blocks; capacity() never decreases, and it changes only in
\* an allocate() called while allocated() = capacity(), then by exactly
\* BlockSize.
PoolAccounting == []PoolAccounts /\ [][CapacitySteps]_vars

\* a pool of two blocks with one object left live: it grew while full, and
\* objects were given back afterwards
PoolAccountingWitness ==
    /\ blocks_ = 2
    /\ capacity_ = 2 * BlockSize
    /\ allocated_ = 1
    /\ Cardinality(live) = 1

\* ---- C22 ----
TradesOfMaker(id) == SelectSeq(trades, LAMBDA t : t.maker_id = id)

\* every order read so far is accounted for, and every trade has an earlier
\* order as its maker
RunConserved ==
    /\ \A id \in DOMAIN original_qty :
          original_qty[id] = SumQty(TradesOfTaker(id)) + SumQty(TradesOfMaker(id))
                                + RestingQty(bids_, asks_, id)
    /\ \A i \in DOMAIN trades : trades[i].maker_id < trades[i].taker_id

\* a submit appends trades only, all with the submitted order as taker and an
\* order read before it as maker
RunAppends ==
    /\ SubSeq(trades', 1, Len(trades)) = trades
    /\ \A i \in DOMAIN NewTrades :
          /\ NewTrades[i].taker_id = order'.id
          /\ NewTrades[i].maker_id \in DOMAIN original_qty

\* C22: per-order conservation over the whole run (ids unique, qty > 0, all
\* trades kept).  After any sequence of submits the qty every order carried
\* when it was submitted equals its fills as taker plus its fills as maker
\* plus its quantity resting in the book; an order is taker only in trades of
\* its own submit and maker only in trades of later submits, so that no trade
\* has taker_id = maker_id.
OrderConserved == []RunConserved /\ [][RunAppends]_vars

\* an order that traded as taker in its own submit, rested with a remainder
\* and was filled as maker by a later submit
OrderConservedWitness ==
    \E id \in DOMAIN original_qty :
       /\ TradesOfTaker(id) # <<>>
       /\ TradesOfMaker(id) # <<>>
       /\ original_qty[id] = SumQty(TradesOfTaker(id)) + SumQty(TradesOfMaker(id))

====
